---- MODULE Spec2Model ----
(***************************************************************************)
(* WeatherScripts: the hourly-history pipeline (FetchPrevDayData.py) and   *)
(* the one-week forecast pipeline (FetchOneWeekForecast.py).               *)
(*                                                                         *)
(* Five specifications share the module:                                   *)
(*   SpecStore   - repeated runs of FetchPrevDayData.main on the CSV store *)
(*   SpecHist    - fetch_history with the retry loop of _retry_get         *)
(*   SpecFetch   - the pagination loop of fetch_hourly                     *)
(*   SpecNorm    - flatten and row_from_hour on arbitrary raw records      *)
(*   SpecDisplay - _parse_display_datetime on arbitrary displayDateTime    *)
(***************************************************************************)
EXTENDS Integers, Sequences, FiniteSets, TLC

VARIABLES
    \* ---- FetchPrevDayData.main and the CSV file at DATA_PATH
    file,        \* [exists, rows]: the file; rows are the text cells of each line
    m_pc,        \* where main is: "start", "fetched" (step 1 done), "done"
    fetched,     \* city -> the historyHours list fetch_history returned in this run
    rerun,       \* this run was served the same lists as the run before
    outcome,     \* how the last merge ended
    nAppended,   \* len(appended) of the last merge
    runs,        \* number of runs of main started so far
    \* ---- fetch_history / _retry_get
    h_pc, h_hours, h_attempt, h_requests, h_sleeps, h_last_err, h_raised,
    h_body, h_result,
    \* ---- fetch_hourly
    f_pc, f_hours, all_hours, page_token, hours_chunk, f_requests, f_pages,
    f_result,
    \* ---- row normalizers
    n_pc, n_hour, n_flat, n_row,
    \* ---- _parse_display_datetime
    d_pc, d_obj, d_out

storeVars == <<file, m_pc, fetched, rerun, outcome, nAppended, runs>>
histVars  == <<h_pc, h_hours, h_attempt, h_requests, h_sleeps, h_last_err,
               h_raised, h_body, h_result>>
fetchVars == <<f_pc, f_hours, all_hours, page_token, hours_chunk, f_requests,
               f_pages, f_result>>
normVars  == <<n_pc, n_hour, n_flat, n_row>>
dispVars  == <<d_pc, d_obj, d_out>>
vars == <<storeVars, histVars, fetchVars, normVars, dispVars>>

(***************************************************************************)
(* JSON / Python values.  A value is tagged with its Python type; a key    *)
(* that is missing from a dict is missing from the record's DOMAIN.        *)
(***************************************************************************)
Null        == [t |-> "null"]                       \* Python None / JSON null
Str(s)      == [t |-> "str", v |-> s]
Num(n)      == [t |-> "num", v |-> n]               \* a JSON number (an int here)
Obj(fields) == [t |-> "obj", f |-> fields]          \* a dict
Float(n, d) == [t |-> "float", n |-> n, d |-> d]    \* the Python float n/d
List(items) == [t |-> "list", v |-> items]          \* a list
EmptyObj    == Obj(<<>>)
\* The marker an operator yields where the Python expression raises.
Raised      == [t |-> "raised"]

IsDict(x) == x.t = "obj"

\* bool(x)
Truthy(x) ==
    CASE x.t = "null" -> FALSE
      [] x.t = "str"  -> x.v # ""
      [] x.t = "num"  -> x.v # 0
      [] x.t = "obj"  -> DOMAIN x.f # {}
      [] x.t = "list" -> x.v # << >>
      [] OTHER        -> TRUE

\* x.get(k) on a dict x
PyGet(x, k) == IF k \in DOMAIN x.f THEN x.f[k] ELSE Null

\* x.get(k, default) on a dict x
PyGetDefault(x, k, default) == IF k \in DOMAIN x.f THEN x.f[k] ELSE default

\* (x or {})
OrEmpty(x) == IF Truthy(x) THEN x ELSE EmptyObj

\* (x or [])
OrEmptyList(x) == IF Truthy(x) THEN x ELSE List(<< >>)

\* Equality of two floats n/d.
FloatEq(a, b) == a.n * b.d = b.n * a.d

\* round(n/d, 2) for n >= 0: the nearest multiple of 1/100, ties to even.
Round2(n, d) ==
    LET q == (n * 100) \div d
        r == (n * 100) % d
        k == IF 2 * r > d THEN q + 1
             ELSE IF 2 * r < d THEN q
             ELSE IF q % 2 = 0 THEN q ELSE q + 1
    IN  Float(k, 100)

(***************************************************************************)
(* FetchPrevDayData.py: the history row normalizer.                        *)
(***************************************************************************)
\* The factors of the conversions are fractions in lowest terms: 1/3.6 = 5/18,
\* 0.44704 = 1397/3125, 25.4 = 127/5.
\* float(x): a JSON number converts, a numeric string converts, anything else
\* raises (ValueError for text, TypeError for a dict).
PyFloat(x) ==
    CASE x.t = "num"                 -> Float(x.v, 1)
      [] x.t = "str" /\ x.v = "5"    -> Float(5, 1)
      [] x.t = "str" /\ x.v = "10"   -> Float(10, 1)
      [] OTHER                       -> Raised

mm_from_qpf(qpf) ==
    IF ~Truthy(qpf) THEN Null
    ELSE IF ~IsDict(qpf) THEN Raised                    \* qpf.get: AttributeError
    ELSE LET qty  == PyGet(qpf, "quantity")
             unit == PyGet(qpf, "unit")
         IN  IF qty = Null THEN Null
             ELSE LET v == PyFloat(qty)
                  IN  IF v = Raised THEN Raised
                      ELSE IF unit = Str("INCHES")
                           THEN Round2(v.n * 127, v.d * 5)
                           ELSE Round2(v.n, v.d)

wind_ms(wind) ==
    IF ~Truthy(wind) THEN Null
    ELSE IF ~IsDict(wind) THEN Raised                   \* wind.get: AttributeError
    ELSE IF ~Truthy(PyGet(wind, "speed")) THEN Null
    ELSE IF ~IsDict(PyGet(wind, "speed")) THEN Raised   \* wind["speed"].get
    ELSE LET val  == PyGet(PyGet(wind, "speed"), "value")
             unit == PyGet(PyGet(wind, "speed"), "unit")
         IN  IF val = Null THEN Null
             ELSE LET v == PyFloat(val)
                  IN  IF v = Raised THEN Raised
                      ELSE IF unit = Str("MILES_PER_HOUR")
                           THEN Round2(v.n * 1397, v.d * 3125)
                           ELSE Round2(v.n * 5, v.d * 18)

\* The interval start timestamps of the model, in chronological order.
T1 == "2025-01-01T00:00:00Z"
T2 == "2025-01-01T01:00:00Z"
T3 == "2025-01-01T02:00:00Z"

\* to_local_iso(ts_utc) with TIMEZONE = Asia/Tbilisi (UTC+04:00): a str that
\* is an ISO-8601 instant converts; any other str makes fromisoformat raise
\* ValueError; a value that is no str has no .replace (AttributeError).
to_local_iso(ts_utc) ==
    CASE ts_utc = Str(T1) -> Str("2025-01-01T04:00:00+04:00")
      [] ts_utc = Str(T2) -> Str("2025-01-01T05:00:00+04:00")
      [] ts_utc = Str(T3) -> Str("2025-01-01T06:00:00+04:00")
      [] OTHER            -> Raised

\* The columns of the CSV, in the order main writes them.
cols == << "city", "interval_start_utc", "interval_end_utc", "local_time",
           "temperature_c", "relative_humidity_pct", "cloud_cover_pct",
           "precip_mm_per_hr", "precip_probability_pct", "precip_type",
           "wind_speed_m_s", "wind_dir_deg", "is_daytime", "condition_type",
           "condition_text" >>

ColSet == { cols[i] : i \in 1..Len(cols) }

\* flatten(city, h): the row, or Raised where an expression of the body raises.
flatten(city, h) ==
    LET interval == PyGetDefault(h, "interval", EmptyObj)
        precip   == OrEmpty(PyGet(h, "precipitation"))
        wind     == OrEmpty(PyGet(h, "wind"))
        temp     == OrEmpty(PyGet(h, "temperature"))
        cond     == OrEmpty(PyGet(h, "weatherCondition"))
    IN  IF ~IsDict(interval) THEN Raised                 \* interval.get
        ELSE IF ~IsDict(cond) THEN Raised                \* cond.get
        ELSE IF ~IsDict(OrEmpty(PyGet(cond, "description"))) THEN Raised
        ELSE LET start_utc == PyGet(interval, "startTime")
                 end_utc   == PyGet(interval, "endTime")
                 cond_desc == PyGet(OrEmpty(PyGet(cond, "description")), "text")
                 local     == IF Truthy(start_utc) THEN to_local_iso(start_utc)
                              ELSE Str("")
             IN  IF local = Raised THEN Raised
                 ELSE IF ~IsDict(temp) THEN Raised       \* temp.get
                 ELSE IF ~IsDict(precip) THEN Raised     \* precip.get
                 ELSE IF mm_from_qpf(PyGet(precip, "qpf")) = Raised THEN Raised
                 ELSE IF ~IsDict(OrEmpty(PyGet(precip, "probability"))) THEN Raised
                 ELSE IF wind_ms(wind) = Raised THEN Raised
                 ELSE IF ~IsDict(OrEmpty(PyGet(wind, "direction"))) THEN Raised
                 ELSE
                   [ city                   |-> Str(city),
                     interval_start_utc     |-> start_utc,
                     interval_end_utc       |-> end_utc,
                     local_time             |-> local,
                     temperature_c          |-> PyGet(temp, "degrees"),
                     relative_humidity_pct  |-> PyGet(h, "relativeHumidity"),
                     cloud_cover_pct        |-> PyGet(h, "cloudCover"),
                     precip_mm_per_hr       |-> mm_from_qpf(PyGet(precip, "qpf")),
                     precip_probability_pct |->
                         PyGet(OrEmpty(PyGet(precip, "probability")), "percent"),
                     precip_type            |->
                         PyGet(OrEmpty(PyGet(precip, "probability")), "type"),
                     wind_speed_m_s         |-> wind_ms(wind),
                     wind_dir_deg           |->
                         PyGet(OrEmpty(PyGet(wind, "direction")), "degrees"),
                     is_daytime             |-> PyGet(h, "isDaytime"),
                     condition_type         |-> PyGet(cond, "type"),
                     condition_text         |-> cond_desc ]


(***************************************************************************)
(* FetchPrevDayData.py: the CSV store and main.                            *)
(***************************************************************************)
\* LOCATIONS, in the iteration order of the dict (the order of LOCATIONS_JSON).
LOCATIONS == << "tbilisi", "batumi" >>

Cities == { LOCATIONS[i] : i \in 1..Len(LOCATIONS) }

\* The order of Python's str comparison on the strings the model uses.
StrRank(s) ==
    CASE s = ""        -> 0
      [] s = T1        -> 1
      [] s = T2        -> 2
      [] s = T3        -> 3
      [] s = "batumi"  -> 4
      [] s = "tbilisi" -> 5

\* csv.DictWriter's text of a cell: None is written as the empty string, a
\* str as itself, any other value as its str().
CsvCell(x) ==
    CASE x.t = "null" -> ""
      [] x.t = "str"  -> x.v
      [] x.t = "num"  -> ToString(x.v)
      [] OTHER        -> ToString(x)

\* read_existing(): [] when the file is absent, else one dict of str per line.
read_existing(f) ==
    IF ~f.exists THEN << >>
    ELSE [ i \in 1..Len(f.rows) |-> [ c \in ColSet |-> Str(f.rows[i][c]) ] ]

\* write_all(rows, fieldnames=cols): the file replaced by the rows' text.
write_all(rows) ==
    [ exists |-> TRUE,
      rows   |-> [ i \in 1..Len(rows) |-> [ c \in ColSet |-> CsvCell(rows[i][c]) ] ] ]

\* key = lambda r: (r.get("city", ""), r.get("interval_start_utc", ""))
key(r) ==
    << IF "city" \in DOMAIN r THEN r["city"] ELSE Str(""),
       IF "interval_start_utc" \in DOMAIN r THEN r["interval_start_utc"] ELSE Str("") >>

\* The sort key of main: (r["city"], r.get("interval_start_utc") or "")
SortKey(r) ==
    << r["city"],
       IF Truthy(r["interval_start_utc"]) THEN r["interval_start_utc"] ELSE Str("") >>

\* a <= b on sort keys (tuples of str compare lexicographically).
KeyLeq(a, b) ==
    \/ StrRank(a[1].v) < StrRank(b[1].v)
    \/ a[1] = b[1] /\ StrRank(a[2].v) <= StrRank(b[2].v)

\* list.sort is stable: each row goes after the rows whose key is <= its own.
RECURSIVE InsertRow(_, _)
InsertRow(r, sorted) ==
    IF sorted = << >> THEN << r >>
    ELSE IF KeyLeq(SortKey(sorted[Len(sorted)]), SortKey(r))
         THEN Append(sorted, r)
         ELSE Append(InsertRow(r, SubSeq(sorted, 1, Len(sorted) - 1)),
                     sorted[Len(sorted)])

\* A plausible slip: the sort left out, the rows kept in fetch order.
SortRows_FetchOrder(rows) == rows

RECURSIVE SortRows(_)
SortRows(rows) ==
    IF rows = << >> THEN << >>
    ELSE InsertRow(rows[Len(rows)], SortRows(SubSeq(rows, 1, Len(rows) - 1)))

\* The rows of main's step 1 before the sort: for each city of LOCATIONS in
\* order, flatten of each hour fetch_history returned, in the order returned.
RECURSIVE FlattenAll(_, _)
FlattenAll(resp, i) ==
    IF i > Len(LOCATIONS) THEN << >>
    ELSE [ j \in 1..Len(resp[LOCATIONS[i]]) |->
             flatten(LOCATIONS[i], resp[LOCATIONS[i]][j]) ]
         \o FlattenAll(resp, i + 1)

\* A plausible slip: the filter on seen keys dropped.
KeepNew_NoFilter(rows, seen) == rows

\* [r for r in new_rows if key(r) not in seen]
RECURSIVE KeepNew(_, _)
KeepNew(rows, seen) ==
    IF rows = << >> THEN << >>
    ELSE LET rest == KeepNew(Tail(rows), seen)
         IN  IF key(Head(rows)) \notin seen THEN << Head(rows) >> \o rest ELSE rest

\* The debug summary takes max() of a city's fetched interval_start_utc values:
\* with two or more values that are not all str, the comparison raises TypeError.
SummaryRaises(new_rows) ==
    \E i, j \in 1..Len(new_rows) :
        /\ i # j
        /\ new_rows[i]["city"] = new_rows[j]["city"]
        /\ new_rows[i]["interval_start_utc"].t # "str"

\* One run of main on file f with fetch results resp: the file it leaves, how
\* it ended, and the rows it appended.
MainRun(f, resp) ==
    LET flat == FlattenAll(resp, 1)
    IN  IF \E i \in 1..Len(flat) : flat[i] = Raised
        THEN [ file |-> f, outcome |-> "raised", appended |-> << >> ]
        ELSE
          LET new_rows == SortRows(flat)
              existing == read_existing(f)
              seen     == { key(existing[i]) : i \in 1..Len(existing) }
              appended == KeepNew(new_rows, seen)
              merged   == IF existing # << >> THEN existing \o appended ELSE new_rows
              final    == [ i \in 1..Len(merged) |->
                              [ c \in ColSet |->
                                  IF c \in DOMAIN merged[i] THEN merged[i][c] ELSE Null ] ]
          IN  IF SummaryRaises(new_rows)
              THEN [ file |-> f, outcome |-> "raised", appended |-> << >> ]
              ELSE IF appended = << >>
              THEN [ file |-> f, outcome |-> "nowrite", appended |-> << >> ]
              ELSE [ file |-> write_all(final), outcome |-> "written",
                     appended |-> appended ]


(***************************************************************************)
(* Bounds of the model.                                                    *)
(***************************************************************************)
\* Runs of main in one behaviour.
MaxRuns == 2
\* Hourly records the provider returns in one run, over all cities.
MaxHours == 2

\* A raw history hour whose interval starts at ts, and one whose interval
\* carries no startTime.
Hour(ts)    == Obj([ interval |-> Obj([ startTime |-> Str(ts) ]) ])
HourNoStart == Obj([ interval |-> EmptyObj ])

StoreHours == { Hour(T1), Hour(T2), HourNoStart }

SeqsUpTo(S, n) == UNION { [ 1..k -> S ] : k \in 0..n }

RECURSIVE TotalLen(_, _)
TotalLen(resp, i) ==
    IF i > Len(LOCATIONS) THEN 0
    ELSE Len(resp[LOCATIONS[i]]) + TotalLen(resp, i + 1)

\* The fetch results of one run: per city, the list fetch_history returns.
Responses ==
    { resp \in [ Cities -> SeqsUpTo(StoreHours, MaxHours) ] :
        TotalLen(resp, 1) <= MaxHours }

NoFetch == [ c \in Cities |-> << >> ]

(***************************************************************************)
(* Idle values: what a specification leaves the other components at.       *)
(***************************************************************************)
StoreIdle ==
    /\ file = [ exists |-> FALSE, rows |-> << >> ]
    /\ m_pc = "start"
    /\ fetched = NoFetch
    /\ rerun = FALSE
    /\ outcome = "idle"
    /\ nAppended = 0
    /\ runs = 0

HistIdle ==
    /\ h_pc = "idle" /\ h_hours = 0 /\ h_attempt = 0 /\ h_requests = 0
    /\ h_sleeps = << >> /\ h_last_err = "none" /\ h_raised = "none"
    /\ h_body = Null /\ h_result = List(<< >>)

FetchIdle ==
    /\ f_pc = "idle" /\ f_hours = 0 /\ all_hours = << >> /\ page_token = FALSE
    /\ hours_chunk = << >> /\ f_requests = 0 /\ f_pages = << >>
    /\ f_result = << >>

NormIdle ==
    /\ n_pc = "idle" /\ n_hour = EmptyObj /\ n_flat = Null /\ n_row = Null

DispIdle ==
    /\ d_pc = "idle" /\ d_obj = Null /\ d_out = Null

(***************************************************************************)
(* SpecStore: runs of FetchPrevDayData.main.  A run is two steps: the      *)
(* fetches (network), then the merge with the file.  After a run the       *)
(* next one either fetches afresh or is served the same lists again.       *)
(***************************************************************************)
InitStore == StoreIdle /\ HistIdle /\ FetchIdle /\ NormIdle /\ DispIdle

\* main, step 1, with every fetch_history call returning: hours per city.
FetchAll(resp) ==
    /\ m_pc = "start"
    /\ runs < MaxRuns
    /\ m_pc' = "fetched"
    /\ fetched' = resp
    /\ rerun' = FALSE
    /\ runs' = runs + 1
    /\ UNCHANGED <<file, outcome, nAppended, histVars, fetchVars, normVars, dispVars>>

\* main, step 1, with a fetch_history call raising (retries exhausted, or a
\* body that is no JSON): the exception ends main before the file is read.
FetchFails ==
    /\ m_pc = "start"
    /\ runs < MaxRuns
    /\ outcome' = "fetch_failed"
    /\ m_pc' = "done"
    /\ runs' = runs + 1
    /\ UNCHANGED <<file, fetched, rerun, nAppended, histVars, fetchVars, normVars, dispVars>>

\* main, from the sort to the end: flatten, sort, read, filter, write.
MergeAndWrite ==
    /\ m_pc = "fetched"
    /\ LET res == MainRun(file, fetched)
       IN  /\ file' = res.file
           /\ outcome' = res.outcome
           /\ nAppended' = Len(res.appended)
    /\ m_pc' = "done"
    /\ UNCHANGED <<fetched, rerun, runs, histVars, fetchVars, normVars, dispVars>>

\* The process ends and its locals go; the provider's data moves on, so the
\* next run's fetch results are arbitrary.
Exit ==
    /\ m_pc = "done"
    /\ m_pc' = "start"
    /\ fetched' = NoFetch
    /\ rerun' = FALSE
    /\ outcome' = "idle"
    /\ nAppended' = 0
    /\ UNCHANGED <<file, runs, histVars, fetchVars, normVars, dispVars>>

\* main runs again and every fetch_history call returns what it returned in
\* the run before (unchanged upstream data).
FetchSameAgain ==
    /\ m_pc = "done"
    /\ outcome \in {"written", "nowrite"}
    /\ runs < MaxRuns
    /\ m_pc' = "fetched"
    /\ rerun' = TRUE
    /\ runs' = runs + 1
    /\ UNCHANGED <<file, fetched, outcome, nAppended, histVars, fetchVars, normVars, dispVars>>

NextStore ==
    \/ \E resp \in Responses : FetchAll(resp)
    \/ FetchFails
    \/ MergeAndWrite
    \/ Exit
    \/ FetchSameAgain

SpecStore == InitStore /\ [][NextStore]_vars

(***************************************************************************)
(* Claims about the store (SpecStore).                                     *)
(***************************************************************************)
\* The step of a run that reads, filters and writes.
MergeStep == m_pc = "fetched" /\ m_pc' = "done"

\* The (city, interval_start_utc) key of a line of the file.
FileKey(row) == << row["city"], row["interval_start_utc"] >>

\* The keys main computes for the rows it read from file f.
SeenKeys(f) == { key(read_existing(f)[i]) : i \in 1..Len(f.rows) }

\* The indices of the freshly flattened rows whose key main finds unseen in f.
UnseenIdx(f, resp) ==
    { i \in 1..Len(FlattenAll(resp, 1)) : key(FlattenAll(resp, 1)[i]) \notin SeenKeys(f) }

\* The text of one in-memory row as write_all writes it.
RowText(r) == [ c \in ColSet |-> CsvCell(r[c]) ]

\* C1: after any sequence of runs from an absent file, for any provider
\* responses, the file holds no two lines with the same
\* (city, interval_start_utc).
C1_NoDuplicateKeys ==
    \A i, j \in 1..Len(file.rows) :
        i # j => FileKey(file.rows[i]) # FileKey(file.rows[j])

\* C2: a run that is served the same fetch results as the run before leaves
\* the file as the run before left it and appends zero rows.
C2_Idempotent ==
    [][ (MergeStep /\ rerun) => (file' = file /\ nAppended' = 0) ]_vars

\* Every fetched row flattens and has a key main finds among the rows read.
AllKeysSeen ==
    /\ \A i \in 1..Len(FlattenAll(fetched, 1)) : FlattenAll(fetched, 1)[i] # Raised
    /\ UnseenIdx(file, fetched) = {}

\* C3: a run in which every new row's key is already among the keys of the
\* rows read (zero fetched rows included) never calls write_all and leaves the
\* file as it was.
C3_EmptyAppendNoWrite ==
    [][ (MergeStep /\ AllKeysSeen) => (file' = file /\ outcome' # "written") ]_vars

\* C3 witness: a run fetched rows, found every key in the file, wrote nothing.
C3_Witness ==
    /\ m_pc = "done"
    /\ outcome = "nowrite"
    /\ file.exists
    /\ TotalLen(fetched, 1) > 0

\* C9 as stated: a run that writes leaves the lines it read followed by the
\* unseen rows in the order they were fetched (LOCATIONS order, then the
\* fetcher's order).
C9_AppendKeepsFetchOrder ==
    [][ (MergeStep /\ outcome' = "written") =>
          file'.rows = file.rows \o
              [ i \in 1..Len(KeepNew(FlattenAll(fetched, 1), SeenKeys(file))) |->
                  RowText(KeepNew(FlattenAll(fetched, 1), SeenKeys(file))[i]) ] ]_vars

\* a <= b for two lines of the file, by (city, interval_start_utc) as text.
LineLeq(a, b) ==
    \/ StrRank(a["city"]) < StrRank(b["city"])
    \/ /\ a["city"] = b["city"]
       /\ StrRank(a["interval_start_utc"]) <= StrRank(b["interval_start_utc"])

\* C9 amended: a run that writes leaves the lines it read, in their order,
\* followed by the unseen rows, and these are in ascending order of
\* (city, interval_start_utc), a missing start first: not in fetch order.
C9_AppendSortedByKey ==
    [][ (MergeStep /\ outcome' = "written") =>
          LET n == Len(file.rows)
              m == Len(file'.rows)
          IN  /\ m = n + Cardinality(UnseenIdx(file, fetched))
              /\ nAppended' = m - n
              /\ SubSeq(file'.rows, 1, n) = file.rows
              /\ { file'.rows[k] : k \in (n + 1)..m } =
                 { RowText(FlattenAll(fetched, 1)[i]) : i \in UnseenIdx(file, fetched) }
              /\ \A k \in (n + 1)..(m - 1) :
                     LineLeq(file'.rows[k], file'.rows[k + 1]) ]_vars

\* C9 witness: a run appended rows of both cities after lines it had read.
C9_Witness ==
    /\ m_pc = "done"
    /\ outcome = "written"
    /\ nAppended >= 2
    /\ Len(file.rows) > nAppended
    /\ \A c \in Cities : fetched[c] # << >>


(***************************************************************************)
(* SpecHist: one call of fetch_history, with the loop of _retry_get.       *)
(***************************************************************************)
\* _retry_get's parameter retries.
retries == 3

\* The hours argument of the call, and the most records a response carries.
MaxAsked    == 2
MaxReturned == 3

\* time.sleep(backoff ** attempt) with backoff = 1.5: 3^attempt / 2^attempt.
RECURSIVE Pow(_, _)
Pow(b, e) == IF e = 0 THEN 1 ELSE b * Pow(b, e - 1)

BackoffSleep(attempt) == Float(Pow(3, attempt), Pow(2, attempt))

\* A plausible slip: the sleep taken after the final attempt too.
SleepsAfter_Always(attempt) == TRUE

\* if attempt < retries: time.sleep(...)
SleepsAfter(attempt) == attempt < retries

\* What requests.get / raise_for_status raise.
TransportErrors == { "HTTPError", "ConnectionError", "Timeout" }

\* The bodies of a 2xx response: text that is no JSON, or an object with
\* historyHours absent, null, or a list, with or without a nextPageToken.
NotJson == [t |-> "text"]

HourList(k) == List([ i \in 1..k |-> Hour(IF i = 1 THEN T1 ELSE IF i = 2 THEN T2 ELSE T3) ])

Bodies ==
    { NotJson, EmptyObj, Obj([ historyHours |-> Null ]) }
    \cup { Obj([ historyHours |-> HourList(k) ]) : k \in 0..MaxReturned }
    \cup { Obj([ historyHours |-> HourList(k), nextPageToken |-> Str("tok") ]) :
             k \in 0..MaxReturned }

\* A plausible slip: the list cut to the hours asked for.
history_hours_Truncated(body, hours) ==
    LET l == OrEmptyList(PyGetDefault(body, "historyHours", List(<< >>)))
    IN  List(SubSeq(l.v, 1, IF Len(l.v) < hours THEN Len(l.v) ELSE hours))

\* r.json().get("historyHours", []) or []   (hours is not used)
history_hours(body, hours) ==
    OrEmptyList(PyGetDefault(body, "historyHours", List(<< >>)))

InitHist ==
    /\ StoreIdle /\ FetchIdle /\ NormIdle /\ DispIdle
    /\ h_pc = "attempt"
    /\ h_hours \in 1..MaxAsked
    /\ h_attempt = 1
    /\ h_requests = 0
    /\ h_sleeps = << >>
    /\ h_last_err = "none"
    /\ h_raised = "none"
    /\ h_body = Null
    /\ h_result = List(<< >>)

\* One iteration of the loop in which requests.get or raise_for_status raises:
\* the except branch, then the next iteration or, after the last, the raise.
AttemptFails(err) ==
    /\ h_pc = "attempt"
    /\ h_requests' = h_requests + 1
    /\ h_last_err' = err
    /\ h_sleeps' = IF SleepsAfter(h_attempt)
                   THEN Append(h_sleeps, BackoffSleep(h_attempt))
                   ELSE h_sleeps
    /\ IF h_attempt < retries
       THEN /\ h_attempt' = h_attempt + 1
            /\ UNCHANGED <<h_pc, h_raised>>
       ELSE /\ h_pc' = "raised"
            /\ h_raised' = err
            /\ UNCHANGED h_attempt
    /\ UNCHANGED <<h_hours, h_body, h_result, storeVars, fetchVars, normVars, dispVars>>

\* One iteration in which the response is 2xx: _retry_get returns it.
AttemptOk(body) ==
    /\ h_pc = "attempt"
    /\ h_requests' = h_requests + 1
    /\ h_body' = body
    /\ h_pc' = "json"
    /\ UNCHANGED <<h_hours, h_attempt, h_sleeps, h_last_err, h_raised, h_result,
                   storeVars, fetchVars, normVars, dispVars>>

\* fetch_history's return statement: r.json() raises on text that is no JSON.
ParseBody ==
    /\ h_pc = "json"
    /\ IF h_body = NotJson
       THEN /\ h_pc' = "raised"
            /\ h_raised' = "JSONDecodeError"
            /\ UNCHANGED h_result
       ELSE /\ h_pc' = "returned"
            /\ h_result' = history_hours(h_body, h_hours)
            /\ UNCHANGED h_raised
    /\ UNCHANGED <<h_hours, h_attempt, h_requests, h_sleeps, h_last_err, h_body,
                   storeVars, fetchVars, normVars, dispVars>>

NextHist ==
    \/ \E err \in TransportErrors : AttemptFails(err)
    \/ \E body \in Bodies : AttemptOk(body)
    \/ ParseBody

SpecHist == InitHist /\ [][NextHist]_vars

\* C5 as stated: fetch_history returns at most hours records.
C5_AtMostHours ==
    h_pc = "returned" => Len(h_result.v) <= h_hours

\* The list the response carried under historyHours, if it carried one.
CarriedHours(body) ==
    IF "historyHours" \in DOMAIN body.f /\ body.f["historyHours"].t = "list"
    THEN body.f["historyHours"].v
    ELSE << >>

\* C5 amended: fetch_history returns the response's historyHours list as it
\* came (empty when the key is absent or null), neither truncated to hours
\* nor extended by following a continuation cursor.
C5_ReturnsCarriedList ==
    h_pc = "returned" => h_result = List(CarriedHours(h_body))

\* C5 witness: a response with more records than asked for was returned.
C5_Witness ==
    /\ h_pc = "returned"
    /\ Len(h_result.v) > h_hours
    /\ "nextPageToken" \in DOMAIN h_body.f

\* Once a 2xx response has come, or the error is raised, no request and no
\* sleep follows.
NoRequestAfterResponse ==
    h_pc \in {"json", "returned", "raised"} =>
        (h_requests' = h_requests /\ h_sleeps' = h_sleeps)

\* C8: at most 3 requests; every failure before the last attempt is followed
\* by one sleep and another attempt; the first 2xx response ends the
\* retrying; after 3 failures the last error is raised with no sleep after
\* the final attempt; a 2xx body that is no JSON is raised as an error with
\* no further request.
C8_RetryProtocol ==
    /\ [](h_requests <= retries)
    /\ [](h_pc = "attempt" =>
            /\ h_attempt = h_requests + 1
            /\ Len(h_sleeps) = h_requests)
    /\ [](h_pc \in {"json", "returned"} =>
            /\ Len(h_sleeps) = h_requests - 1
            /\ h_raised = "none")
    /\ [](h_pc = "raised" /\ h_raised # "JSONDecodeError" =>
            /\ h_requests = retries
            /\ Len(h_sleeps) = retries - 1
            /\ h_raised = h_last_err
            /\ h_raised \in TransportErrors)
    /\ [](h_pc = "raised" /\ h_raised = "JSONDecodeError" =>
            /\ h_body = NotJson
            /\ Len(h_sleeps) = h_requests - 1)
    /\ [][NoRequestAfterResponse]_vars

\* C8 witness: three attempts failed and the last error was raised.
C8_Witness ==
    /\ h_pc = "raised"
    /\ h_requests = 3
    /\ h_raised = "Timeout"
    /\ h_sleeps = << Float(3, 2), Float(9, 4) >>


(***************************************************************************)
(* SpecFetch: one call of fetch_hourly (FetchOneWeekForecast.py).          *)
(***************************************************************************)
HOURS_TOTAL == 168
PAGE_SIZE   == 24

\* Small targets, the longest small page, and the most requests of one call.
MaxTarget   == 3
MaxPageLen  == 2
MaxRequests == 7

\* start_utc(h): (h.get("interval", {}) or {}).get("startTime", "")
start_utc(h) ==
    PyGetDefault(OrEmpty(PyGetDefault(h, "interval", EmptyObj)), "startTime", Str(""))

\* all_hours.sort(key=start_utc): a stable sort, that is, for each key in
\* ascending order the records that have it, in the order they came.
sort_by_start(hs) ==
    SelectSeq(hs, LAMBDA h : StrRank(start_utc(h).v) = 0)
    \o SelectSeq(hs, LAMBDA h : StrRank(start_utc(h).v) = 1)
    \o SelectSeq(hs, LAMBDA h : StrRank(start_utc(h).v) = 2)
    \o SelectSeq(hs, LAMBDA h : StrRank(start_utc(h).v) = 3)

\* all_hours[:hours], for hours > 0
take(hs, hours) == SubSeq(hs, 1, IF Len(hs) < hours THEN Len(hs) ELSE hours)

\* A plausible slip: the count test written with > instead of >=.
loop_breaks_OffByOne(token, chunk, all, hours) ==
    \/ ~Truthy(token)
    \/ Len(chunk) = 0
    \/ Len(all) > hours

\* The two break tests at the end of the loop body.
loop_breaks(token, chunk, all, hours) ==
    \/ ~Truthy(token)
    \/ Len(chunk) = 0
    \/ Len(all) >= hours

\* The pages the provider may answer with.  For the small targets: any page
\* of up to MaxPageLen records; for HOURS_TOTAL: an empty page or a page of
\* PAGE_SIZE records of one hour.
SmallPages == SeqsUpTo({ Hour(T1), Hour(T2), HourNoStart }, MaxPageLen)
FullPages  == { [ i \in 1..PAGE_SIZE |-> Hour(ts) ] : ts \in { T1, T2 } }

Pages(hours) == IF hours # HOURS_TOTAL THEN SmallPages ELSE FullPages \cup { << >> }

Tokens == { Null, Str("tok") }

InitFetch ==
    /\ StoreIdle /\ HistIdle /\ NormIdle /\ DispIdle
    /\ f_pc = "loop"
    /\ f_hours \in (1..MaxTarget) \cup { HOURS_TOTAL }
    /\ all_hours = << >>
    /\ page_token = Null
    /\ hours_chunk = << >>
    /\ f_requests = 0
    /\ f_pages = << >>
    /\ f_result = << >>

\* One iteration of the while loop with a 2xx response carrying chunk and
\* token; when the loop breaks, the sort and the slice that follow it.
Request(chunk, token) ==
    /\ f_pc = "loop"
    /\ f_requests < MaxRequests
    /\ f_requests' = f_requests + 1
    /\ hours_chunk' = chunk
    /\ all_hours' = all_hours \o chunk
    /\ page_token' = token
    /\ f_pages' = Append(f_pages, [ n |-> Len(chunk), cursor |-> Truthy(token) ])
    /\ IF loop_breaks(token, chunk, all_hours \o chunk, f_hours)
       THEN /\ f_pc' = "returned"
            /\ f_result' = take(sort_by_start(all_hours \o chunk), f_hours)
       ELSE UNCHANGED <<f_pc, f_result>>
    /\ UNCHANGED <<f_hours, storeVars, histVars, normVars, dispVars>>

\* One iteration in which requests.get or raise_for_status raises: the
\* exception leaves fetch_hourly.
RequestFails ==
    /\ f_pc = "loop"
    /\ f_requests < MaxRequests
    /\ f_requests' = f_requests + 1
    /\ f_pc' = "raised"
    /\ UNCHANGED <<f_hours, all_hours, page_token, hours_chunk, f_pages, f_result,
                   storeVars, histVars, normVars, dispVars>>

NextFetch ==
    \/ \E chunk \in Pages(f_hours), token \in Tokens : Request(chunk, token)
    \/ RequestFails

SpecFetch == InitFetch /\ [][NextFetch]_vars

\* A request after the first is issued only if the last response carried a
\* cursor, was non-empty, and left the count below the target.
FurtherRequestOnlyIf ==
    (f_requests' > f_requests /\ f_requests > 0) =>
        /\ Truthy(page_token)
        /\ Len(hours_chunk) > 0
        /\ Len(all_hours) < f_hours

\* Every response so far was a page of PAGE_SIZE records with a cursor.
AllPagesFull ==
    \A i \in 1..Len(f_pages) : f_pages[i].n = PAGE_SIZE /\ f_pages[i].cursor

\* C4: a further request is issued only if the last response carried a
\* cursor, was non-empty and the count is below the target; the records
\* returned are non-decreasing by interval start and at most the target; with
\* a target of 168 and pages of 24 records each carrying a cursor, exactly 7
\* requests are made and exactly 168 records returned.
C4_Pagination ==
    /\ [][FurtherRequestOnlyIf]_vars
    /\ [](f_pc = "returned" =>
            /\ Len(f_result) <= f_hours
            /\ \A i \in 1..(Len(f_result) - 1) :
                   StrRank(start_utc(f_result[i]).v)
                       <= StrRank(start_utc(f_result[i + 1]).v))
    /\ [](f_pc = "returned" /\ f_hours = 168 /\ AllPagesFull =>
            /\ f_requests = 7
            /\ Len(f_result) = 168)

\* C4 witness: seven full pages with cursors, arriving out of order, were
\* fetched for a target of 168 and returned in order.
C4_Witness ==
    /\ f_pc = "returned"
    /\ f_hours = 168
    /\ AllPagesFull
    /\ f_requests = 7
    /\ Len(f_result) = 168
    /\ start_utc(all_hours[1]) = Str(T2)
    /\ start_utc(f_result[1]) = Str(T1)


(***************************************************************************)
(* FetchOneWeekForecast.py: _parse_display_datetime and row_from_hour.     *)
(***************************************************************************)
\* float(str(utc_off).rstrip("s")): the seconds of an offset such as
\* "14400s"; Raised where float() raises ValueError.
OffsetSeconds(utc_off) ==
    CASE utc_off = Str("14400s") -> Num(14400)
      [] utc_off = Str("3600s")  -> Num(3600)
      [] utc_off = Str("90s")    -> Num(90)
      [] utc_off = Str("90000s") -> Num(90000)
      [] utc_off.t = "num"       -> utc_off
      [] OTHER                   -> Raised

\* dt.timezone(dt.timedelta(seconds=sec)) raises ValueError unless the offset
\* is strictly between -24 h and 24 h.
TimezoneOk(sec) == -86400 < sec /\ sec < 86400

\* int(round(sec / 60)) for sec >= 0: round() takes ties to even.
RoundMinutes(sec) ==
    LET q == sec \div 60
        r == sec % 60
    IN  IF r > 30 THEN q + 1
        ELSE IF r < 30 THEN q
        ELSE IF q % 2 = 0 THEN q ELSE q + 1

\* ZoneInfo(tz): the zone's UTC offset in seconds on the dates of the model;
\* Raised where ZoneInfo raises (an unknown key, a value that is no str).
ZoneSeconds(tz) ==
    CASE tz = Str("Asia/Tbilisi") -> Num(14400)
      [] tz = Str("UTC")          -> Num(0)
      [] OTHER                    -> Raised

\* dt.datetime(y, m, d, hh, mm, ss) accepts integers in range only (the
\* months of the model have 31 days).
IntIn(x, lo, hi) == x.t = "num" /\ lo <= x.v /\ x.v <= hi

\* A plausible slip: the named zone consulted only when no fixed offset gave
\* a tzinfo.
resolve_tzinfo_PreferFixed(fixed, zone) ==
    IF fixed # Null THEN fixed ELSE zone

\* tzinfo after the two try blocks: the fixed offset's timezone, overwritten
\* by the named zone when ZoneInfo(tz) succeeds.  Null is None; otherwise the
\* UTC offset in seconds.
resolve_tzinfo(fixed, zone) ==
    IF zone # Null THEN zone ELSE fixed

\* _parse_display_datetime(dt_obj): << display_local, utc_offset_min >>, or
\* Raised.  display_local stands for local.isoformat(): the date and time
\* fields and the rendered offset (Null for a naive datetime).
parse_display_datetime(dt_obj) ==
    IF ~Truthy(dt_obj) THEN << Null, Null >>
    ELSE IF ~IsDict(dt_obj) THEN Raised                      \* dt_obj.get
    ELSE
      LET y  == PyGet(dt_obj, "year")
          m  == PyGet(dt_obj, "month")
          d  == PyGet(dt_obj, "day")
          hh == PyGetDefault(dt_obj, "hours", Num(0))
          mm == PyGetDefault(dt_obj, "minutes", Num(0))
          ss == PyGetDefault(dt_obj, "seconds", Num(0))
          utc_off == PyGet(dt_obj, "utcOffset")
          sec == IF Truthy(utc_off) THEN OffsetSeconds(utc_off) ELSE Raised
          parsed == sec # Raised /\ TimezoneOk(sec.v)
          fixed == IF parsed THEN sec ELSE Null
          offset_min1 == IF parsed THEN Num(RoundMinutes(sec.v)) ELSE Null
          tzobj == OrEmpty(PyGet(dt_obj, "timeZone"))
      IN  IF ~IsDict(tzobj) THEN Raised                       \* (... or {}).get
          ELSE
            LET tz == PyGet(tzobj, "id")
                zone == IF Truthy(tz) /\ ZoneSeconds(tz) # Raised
                        THEN ZoneSeconds(tz) ELSE Null
                tzinfo == resolve_tzinfo(fixed, zone)
            IN  IF Null \in { y, m, d, hh, mm } THEN << Null, offset_min1 >>
                ELSE IF ~( /\ IntIn(y, 1, 9999) /\ IntIn(m, 1, 12) /\ IntIn(d, 1, 31)
                           /\ IntIn(hh, 0, 23) /\ IntIn(mm, 0, 59)
                           /\ (ss = Null \/ IntIn(ss, 0, 59)) )
                     THEN Raised                              \* dt.datetime(...)
                ELSE
                  << [ t |-> "iso", y |-> y.v, m |-> m.v, d |-> d.v, hh |-> hh.v,
                       mm |-> mm.v, ss |-> IF ss = Null THEN 0 ELSE ss.v,
                       offset |-> tzinfo ],
                     IF offset_min1 = Null /\ tzinfo # Null
                     THEN Num(tzinfo.v \div 60)
                     ELSE offset_min1 >>

\* g(obj, *keys, default): the nested lookup of row_from_hour.
RECURSIVE g(_, _, _)
g(obj, keys, default) ==
    IF keys = << >> THEN (IF obj = Null THEN default ELSE obj)
    ELSE IF ~IsDict(obj) THEN default
    ELSE g(PyGet(obj, Head(keys)), Tail(keys), default)

\* x / 3.6, x * 0.44704, x * 25.4 on a JSON number, as fractions in lowest
\* terms (5/18, 1397/3125, 127/5); Raised (TypeError) on a value that is no
\* number.
Div36(x)    == IF x.t = "num" THEN Float(x.v * 5, 18) ELSE Raised
Mul044704(x) == IF x.t = "num" THEN Float(x.v * 1397, 3125) ELSE Raised
Mul254(x)   == IF x.t = "num" THEN Float(x.v * 127, 5) ELSE Raised

row_from_hour(h) ==
    LET disp      == parse_display_datetime(PyGet(h, "displayDateTime"))
        wind_val  == g(h, << "wind", "speed", "value" >>, Null)
        wind_unit == g(h, << "wind", "speed", "unit" >>, Null)
        wind_ms_f == IF wind_val = Null THEN Null
                     ELSE IF wind_unit = Str("KILOMETERS_PER_HOUR") THEN Div36(wind_val)
                     ELSE IF wind_unit = Str("MILES_PER_HOUR") THEN Mul044704(wind_val)
                     ELSE wind_val
        qpf_qty   == g(h, << "precipitation", "qpf", "quantity" >>, Null)
        qpf_unit  == g(h, << "precipitation", "qpf", "unit" >>, Null)
        precip_mm == IF qpf_qty = Null THEN Float(0, 1)
                     ELSE IF qpf_unit = Str("INCHES") THEN Mul254(qpf_qty)
                     ELSE qpf_qty
        text      == g(h, << "weatherCondition", "description", "text" >>, Null)
    IN  IF disp = Raised \/ wind_ms_f = Raised \/ precip_mm = Raised THEN Raised
        ELSE
          [ interval_start_utc |-> g(h, << "interval", "startTime" >>, Null),
            display_local      |-> disp[1],
            utc_offset_min     |-> disp[2],
            temp_c             |-> g(h, << "temperature", "value" >>, Null),
            feels_like_c       |-> g(h, << "feelsLikeTemperature", "value" >>, Null),
            rel_humidity_pct   |-> g(h, << "relativeHumidity" >>, Null),
            wind_speed_ms      |-> wind_ms_f,
            wind_dir_deg       |-> g(h, << "wind", "direction", "degrees" >>, Null),
            precip_mm          |-> precip_mm,
            precip_prob_pct    |->
                g(h, << "precipitation", "probability", "percent" >>, Num(0)),
            precip_type        |-> g(h, << "precipitation", "probability", "type" >>, Null),
            condition          |->
                IF Truthy(text) THEN text
                ELSE g(h, << "weatherCondition", "type" >>, Null) ]


(***************************************************************************)
(* SpecDisplay: _parse_display_datetime on one displayDateTime object.     *)
(***************************************************************************)
\* Records built field by field: a field whose value is Missing is left out.
Missing == [t |-> "missing"]

RECURSIVE MakeFields(_, _)
MakeFields(names, vals) ==
    IF names = << >> THEN << >>
    ELSE LET rest == MakeFields(Tail(names), Tail(vals))
         IN  IF Head(vals) = Missing THEN rest
             ELSE (Head(names) :> Head(vals)) @@ rest

MakeObj(names, vals) == Obj(MakeFields(names, vals))

DisplayObjects ==
    { Null, EmptyObj, Str("2025-01-01T10:30:00") }
    \cup
    { MakeObj(<< "year", "month", "day", "hours", "minutes", "utcOffset", "timeZone" >>,
              << y, m, d, hh, mm, off, tz >>) :
        y   \in { Missing, Num(2025) },
        m   \in { Missing, Num(1), Num(13) },
        d   \in { Null, Num(15) },
        hh  \in { Missing, Null, Num(10) },
        mm  \in { Missing, Null, Num(30) },
        off \in { Missing, Str("14400s"), Str("3600s"), Str("90s"), Str("abc"),
                  Str("90000s") },
        tz  \in { Missing, Str("Asia/Tbilisi"),
                  Obj([ id |-> Str("Asia/Tbilisi") ]), Obj([ id |-> Str("UTC") ]),
                  Obj([ id |-> Str("Nowhere/Zone") ]) } }

InitDisplay ==
    /\ StoreIdle /\ HistIdle /\ FetchIdle /\ NormIdle
    /\ d_pc = "start"
    /\ d_obj \in DisplayObjects
    /\ d_out = Null

ParseDisplay ==
    /\ d_pc = "start"
    /\ d_out' = parse_display_datetime(d_obj)
    /\ d_pc' = "done"
    /\ UNCHANGED <<d_obj, storeVars, histVars, fetchVars, normVars>>

NextDisplay == ParseDisplay

SpecDisplay == InitDisplay /\ [][NextDisplay]_vars


(***************************************************************************)
(* Claims about the display time (SpecDisplay).                            *)
(***************************************************************************)
\* The record supplies a fixed UTC offset that parses to a usable timezone.
FixedParsed(o) ==
    /\ Truthy(PyGet(o, "utcOffset"))
    /\ OffsetSeconds(PyGet(o, "utcOffset")) # Raised
    /\ TimezoneOk(OffsetSeconds(PyGet(o, "utcOffset")).v)

FixedSeconds(o) == OffsetSeconds(PyGet(o, "utcOffset"))

\* The record names a time zone that ZoneInfo knows.
ZoneValid(o) ==
    /\ IsDict(OrEmpty(PyGet(o, "timeZone")))
    /\ Truthy(PyGet(OrEmpty(PyGet(o, "timeZone")), "id"))
    /\ ZoneSeconds(PyGet(OrEmpty(PyGet(o, "timeZone")), "id")) # Raised

ZoneOffset(o) == ZoneSeconds(PyGet(OrEmpty(PyGet(o, "timeZone")), "id"))

\* One of year, month, day, hours, minutes is missing from the record or null.
AnyDatePartMissing(o) ==
    \E k \in { "year", "month", "day", "hours", "minutes" } : PyGet(o, k) = Null

\* One of year, month, day is missing or null, or hours or minutes is null.
DateUnusable(o) ==
    \/ \E k \in { "year", "month", "day" } : PyGet(o, k) = Null
    \/ \E k \in { "hours", "minutes" } : k \in DOMAIN o.f /\ o.f[k] = Null

\* The call returned for a non-empty displayDateTime object.
DisplayReturned == d_pc = "done" /\ d_out # Raised /\ Truthy(d_obj) /\ IsDict(d_obj)

\* C10 as stated: a parseable fixed offset decides the rendering of
\* display_local even when a zone id is present; the zone is used only
\* without a fixed offset; with neither, or with any of
\* year/month/day/hour/minute missing, display_local is None; utc_offset_min
\* carries a parsed offset all the same.
C10_FixedOffsetPreferred ==
    DisplayReturned =>
        /\ (FixedParsed(d_obj) /\ ~AnyDatePartMissing(d_obj)) =>
               (d_out[1] # Null /\ d_out[1].offset = FixedSeconds(d_obj))
        /\ (~FixedParsed(d_obj) /\ ZoneValid(d_obj) /\ ~AnyDatePartMissing(d_obj)) =>
               (d_out[1] # Null /\ d_out[1].offset = ZoneOffset(d_obj))
        /\ ((~FixedParsed(d_obj) /\ ~ZoneValid(d_obj)) \/ AnyDatePartMissing(d_obj)) =>
               d_out[1] = Null
        /\ FixedParsed(d_obj) =>
               d_out[2] = Num(RoundMinutes(FixedSeconds(d_obj).v))

\* C10 amended: a known zone id decides the rendering of display_local even
\* when a parseable fixed offset is present; the fixed offset renders only
\* without a known zone; with neither, display_local is the naive timestamp;
\* display_local is None only when year, month or day is missing or hours or
\* minutes is null (missing hours and minutes count as 0); utc_offset_min is
\* the parsed fixed offset rounded to minutes, else the zone's offset when
\* display_local is present, else None.
C10_NamedZonePreferred ==
    /\ (d_pc = "done" /\ ~Truthy(d_obj)) => d_out = << Null, Null >>
    /\ DisplayReturned =>
        /\ d_out[1] = Null <=> DateUnusable(d_obj)
        /\ ~DateUnusable(d_obj) =>
               d_out[1].offset =
                   IF ZoneValid(d_obj) THEN ZoneOffset(d_obj)
                   ELSE IF FixedParsed(d_obj) THEN FixedSeconds(d_obj)
                   ELSE Null
        /\ d_out[2] =
               IF FixedParsed(d_obj) THEN Num(RoundMinutes(FixedSeconds(d_obj).v))
               ELSE IF ~DateUnusable(d_obj) /\ ZoneValid(d_obj)
                    THEN Num(ZoneOffset(d_obj).v \div 60)
                    ELSE Null

\* C10 witness: a record with the fixed offset +01:00 and the zone
\* Asia/Tbilisi was rendered at +04:00 with utc_offset_min 60.
C10_Witness ==
    /\ DisplayReturned
    /\ PyGet(d_obj, "utcOffset") = Str("3600s")
    /\ ZoneValid(d_obj)
    /\ d_out[1] # Null
    /\ d_out[1].offset = Num(14400)
    /\ d_out[2] = Num(60)


(***************************************************************************)
(* SpecNorm: flatten and row_from_hour on one raw hourly record in which   *)
(* each nested field is, independently, missing, null, a scalar where a    *)
(* dict is expected, or a dict.                                            *)
(***************************************************************************)
IntervalShapes ==
    { Missing, Null, Str("x"), EmptyObj,
      Obj([ startTime |-> Str(T1) ]), Obj([ startTime |-> Str("not-a-time") ]) }

WindShapes ==
    { Missing, Null, Str("x"),
      Obj([ speed |-> Null ]), Obj([ speed |-> Num(5) ]) }
    \cup
    { Obj([ speed |-> MakeObj(<< "value", "unit" >>, << v, u >>) ]) :
        v \in { Missing, Num(0), Num(10), Num(18), Num(36), Str("abc") },
        u \in { Missing, Str("KILOMETERS_PER_HOUR"), Str("MILES_PER_HOUR"),
                Str("METERS_PER_SECOND") } }

PrecipShapes ==
    { Missing, Null, Str("x"),
      Obj([ qpf |-> Null ]), Obj([ qpf |-> Str("x") ]) }
    \cup
    { Obj([ qpf |-> MakeObj(<< "quantity", "unit" >>, << q, u >>) ]) :
        q \in { Missing, Num(1), Str("abc") },
        u \in { Str("INCHES"), Str("MILLIMETERS") } }

ConditionShapes ==
    { Missing, Null, Str("x"),
      Obj([ type |-> Str("CLEAR") ]),
      Obj([ type |-> Str("CLEAR"), description |-> Str("x") ]),
      Obj([ type |-> Str("CLEAR"), description |-> Obj([ text |-> Str("Clear") ]) ]) }

DisplayShapes ==
    { Missing, Null, Str("2025-01-15T10:30:00"),
      Obj([ year |-> Num(2025), month |-> Num(1), day |-> Num(15),
            hours |-> Num(10), utcOffset |-> Str("14400s") ]) }

RawHours ==
    { MakeObj(<< "interval", "wind", "precipitation", "weatherCondition",
                 "displayDateTime" >>, << i, w, p, c, d >>) :
        i \in IntervalShapes, w \in WindShapes, p \in PrecipShapes,
        c \in ConditionShapes, d \in DisplayShapes }

InitNorm ==
    /\ StoreIdle /\ HistIdle /\ FetchIdle /\ DispIdle
    /\ n_pc = "start"
    /\ n_hour \in RawHours
    /\ n_flat = Null
    /\ n_row = Null

\* The history pipeline normalizes the record.
ApplyFlatten ==
    /\ n_pc = "start"
    /\ n_flat' = flatten("tbilisi", n_hour)
    /\ n_pc' = "flattened"
    /\ UNCHANGED <<n_hour, n_row, storeVars, histVars, fetchVars, dispVars>>

\* The forecast pipeline normalizes the record.
ApplyRowFromHour ==
    /\ n_pc = "flattened"
    /\ n_row' = row_from_hour(n_hour)
    /\ n_pc' = "done"
    /\ UNCHANGED <<n_hour, n_flat, storeVars, histVars, fetchVars, dispVars>>

NextNorm == ApplyFlatten \/ ApplyRowFromHour

SpecNorm == InitNorm /\ [][NextNorm]_vars

\* C6: for every raw record, whatever fields are missing, null or of the
\* wrong shape, flatten and row_from_hour return a row and never raise.
C6_NormalizerTotal ==
    /\ n_pc \in {"flattened", "done"} => n_flat # Raised
    /\ n_pc = "done" => n_row # Raised

\* The wind value and unit of the record, when the value is a number.
WindValue == g(n_hour, << "wind", "speed", "value" >>, Null)
WindUnit  == g(n_hour, << "wind", "speed", "unit" >>, Null)

\* The speed in m/s the unit rule gives: km/h divided by 3.6, mph times
\* 0.44704, any other or missing unit passed through.
ExpectedWind(val, unit) ==
    IF unit = Str("KILOMETERS_PER_HOUR") THEN Float(val.v * 5, 18)
    ELSE IF unit = Str("MILES_PER_HOUR") THEN Float(val.v * 1397, 3125)
    ELSE Float(val.v, 1)

\* A row's number as a float.
AsFloat(x) == IF x.t = "num" THEN Float(x.v, 1) ELSE x

\* C7: in both pipelines, for every present wind value, the row's wind speed
\* is value / 3.6 for KILOMETERS_PER_HOUR, value * 0.44704 for
\* MILES_PER_HOUR, and the value itself for any other or missing unit (the
\* history row is compared at the two decimals it keeps).
C7_WindUnits ==
    (n_pc = "done" /\ WindValue.t = "num") =>
        /\ n_row # Raised =>
               FloatEq(AsFloat(n_row.wind_speed_ms), ExpectedWind(WindValue, WindUnit))
        /\ n_flat # Raised =>
               /\ n_flat.wind_speed_m_s # Null
               /\ n_flat.wind_speed_m_s =
                      Round2(ExpectedWind(WindValue, WindUnit).n,
                             ExpectedWind(WindValue, WindUnit).d)

\* C7 restricted to the forecast pipeline, where it holds.
C7_ForecastWindUnits ==
    (n_pc = "done" /\ WindValue.t = "num" /\ n_row # Raised) =>
        FloatEq(AsFloat(n_row.wind_speed_ms), ExpectedWind(WindValue, WindUnit))


====
